---- MODULE Spec2Model ----
(***************************************************************************)
(* Event-context feature derivation of the shot table                      *)
(* (milestone2/feature_engineering.py, FeatureEngineering) together with   *)
(* the part of the tidy-table construction (scripts/data_processor.py,     *)
(* scripts/tidy_data_creator.py) that produces the rows it reads.          *)
(*                                                                         *)
(* Representation.  A Python value that may be None is a tuple: <<>> is    *)
(* None and <<v>> is the value v.  A clock string "mm:ss" is the pair      *)
(* <<mm, ss>>.  A situation code is the sequence of its characters.  A     *)
(* distance is kept as its square (hypot(dx, dy)^2 = dx^2 + dy^2), which   *)
(* is exact on integer coordinates.                                        *)
(***************************************************************************)
EXTENDS Integers, Sequences, FiniteSets, TLC

VARIABLES
    pc,                     \* position of feature_engineering_2: "games", "rows", "returned", "raised"
    exc,                    \* the exception that escaped feature_engineering_2 ("none" while running)
    gi,                     \* number of groups of df.groupby("game_id") taken so far
    cached_game,            \* self._cached_game: the number of the game whose payload object
                            \* the slot refers to (0: None)
    payload,                \* the content of that object, kept while its game is the current one
    home_team, away_team,   \* locals of feature_engineering_2, set per game
    group,                  \* the rows of df of the current game, in df order
    ri,                     \* number of rows of the current group processed so far
    out,                    \* the values written by df.at to the rows of the current group
                            \* (the rows of earlier groups are no longer tracked)
    friendly_player_count,  \* local of feature_engineering_2, unbound until first assigned
    opponent_player_count,  \* local of feature_engineering_2, unbound until first assigned
    disk,                   \* how the payload file of the current game is on disk (a PayloadKinds)
    shot,                   \* one raw shot event on its way from its payload through
                            \* extraction and the tidy table to its derived row
    store                   \* the cache directories of the two download functions and
                            \* what their last call did

fe_vars == <<pc, exc, gi, cached_game, payload, home_team, away_team, group, ri, out,
             friendly_player_count, opponent_player_count, disk>>

vars == <<pc, exc, gi, cached_game, payload, home_team, away_team, group, ri, out,
          friendly_player_count, opponent_player_count, disk, shot, store>>

----------------------------------------------------------------------------
(* Bounds of the model *)

MaxPlays == 3       \* longest play list of a game payload
MaxGames == 2       \* most games in one table

----------------------------------------------------------------------------
(* Python values *)

None == <<>>
Some(v) == <<v>>
Val(o) == o[1]
NaN == <<"nan", "nan">>
Unbound == <<"unbound", "unbound">>
Absent == <<"absent">>     \* a key a dict does not have, a column a table does not have

Min(S) == CHOOSE m \in S : \A n \in S : m <= n
Abs(n) == IF n < 0 THEN -n ELSE n

----------------------------------------------------------------------------
(* Arithmetic of the numeric libraries, in whole numbers *)

\* floor(10^4 * tan(k degrees)) for k = 1..89
TanE4 ==
    << 174, 349, 524, 699, 874, 1051, 1227, 1405, 1583, 1763, 1943, 2125,
       2308, 2493, 2679, 2867, 3057, 3249, 3443, 3639, 3838, 4040, 4244,
       4452, 4663, 4877, 5095, 5317, 5543, 5773, 6008, 6248, 6494, 6745,
       7002, 7265, 7535, 7812, 8097, 8390, 8692, 9004, 9325, 9656, 10000,
       10355, 10723, 11106, 11503, 11917, 12348, 12799, 13270, 13763, 14281,
       14825, 15398, 16003, 16642, 17320, 18040, 18807, 19626, 20503, 21445,
       22460, 23558, 24750, 26050, 27474, 29042, 30776, 32708, 34874, 37320,
       40107, 43314, 47046, 51445, 56712, 63137, 71153, 81443, 95143, 114300,
       143006, 190811, 286362, 572899 >>

\* degrees(arctan(o / a)) for o >= 0 and a > 0, in whole degrees (0..89)
ArctanDeg(o, a) ==
    LET ks == {k \in 1..89 : TanE4[k] * a <= o * 10000}
    IN  Cardinality(ks)

\* degrees(arctan2(dy, dx)), in whole degrees, in -180..180
Arctan2Deg(dy, dx) ==
    IF dx > 0 THEN (IF dy >= 0 THEN ArctanDeg(dy, dx) ELSE -ArctanDeg(-dy, dx))
    ELSE IF dx = 0 THEN (IF dy > 0 THEN 90 ELSE IF dy < 0 THEN -90 ELSE 0)
    ELSE IF dy >= 0 THEN 180 - ArctanDeg(dy, -dx)
    ELSE -(180 - ArctanDeg(-dy, -dx))

\* hypot(dx, dy), kept as its square
Hypot2(dx, dy) == dx * dx + dy * dy

----------------------------------------------------------------------------
(* The raw play-by-play payloads the model draws from *)

HomeId == 10        \* cached_game["homeTeam"]["id"] of every payload of the model
AwayId == 20        \* cached_game["awayTeam"]["id"] of every payload of the model

Code1551 == <<"1", "5", "5", "1">>
Code1451 == <<"1", "4", "5", "1">>
Code1x51 == <<"1", "x", "5", "1">>

\* type, owning team, coordinates and situation code of the plays of the model
Shapes ==
    { [typeDescKey |-> Some("shot-on-goal"), team |-> Some(HomeId),
       x |-> Some(79), y |-> Some(10), situationCode |-> Some(Code1551)],
      [typeDescKey |-> Some("shot-on-goal"), team |-> Some(HomeId),
       x |-> Some(69), y |-> Some(-20), situationCode |-> Some(Code1451)],
      [typeDescKey |-> Some("goal"), team |-> Some(AwayId),
       x |-> Some(-79), y |-> Some(10), situationCode |-> Some(Code1451)],
      [typeDescKey |-> Some("blocked-shot"), team |-> Some(AwayId),
       x |-> Some(59), y |-> Some(0), situationCode |-> None],
      [typeDescKey |-> Some("Missed-Shot"), team |-> Some(HomeId),
       x |-> Some(-69), y |-> Some(10), situationCode |-> Some(Code1x51)],
      [typeDescKey |-> Some("stoppage"), team |-> None,
       x |-> None, y |-> None, situationCode |-> Some(Code1451)] }

\* period number and clock "mm:ss" of the plays of the model
Clocks == { <<1, <<0, 10>>>>, <<1, <<1, 5>>>>, <<2, <<0, 10>>>> }

Play(sh, period, clock) ==
    [ typeDescKey      |-> sh.typeDescKey,
      periodDescriptor |-> period,
      timeInPeriod     |-> clock,
      details          |-> [xCoord |-> sh.x, yCoord |-> sh.y,
                            eventOwnerTeamId |-> sh.team],
      situationCode    |-> sh.situationCode ]

Stoppage == CHOOSE sh \in Shapes : sh.typeDescKey = Some("stoppage")

\* well-formed plays, and two plays that lack a field
PlayPool ==
    { Play(sh, Some([number |-> c[1]]), Some(c[2])) : sh \in Shapes, c \in Clocks }
    \cup { Play(Stoppage, Some([number |-> 1]), None),
           Play(Stoppage, None, Some(<<0, 10>>)) }

\* the feed lists plays by period and clock (a play lacking either is anywhere)
FeedKey(play) ==
    Val(play.periodDescriptor).number * 10000
        + Val(play.timeInPeriod)[1] * 60 + Val(play.timeInPeriod)[2]

HasKey(play) == play.periodDescriptor # None /\ play.timeInPeriod # None

FeedOrdered(plays) ==
    \A i, j \in DOMAIN plays :
        (i < j /\ HasKey(plays[i]) /\ HasKey(plays[j]))
            => FeedKey(plays[i]) <= FeedKey(plays[j])

Timelines ==
    UNION { {tl \in [1..n -> PlayPool] : FeedOrdered(tl)} : n \in 1..MaxPlays }

\* a payload file: readable with all its fields, or damaged in one of three ways
Payload(kind, plays) ==
    [ kind |-> kind, plays |-> plays,
      homeTeam |-> [id |-> HomeId], awayTeam |-> [id |-> AwayId] ]

PayloadKinds == {"ok", "unreadable", "noteams", "noplays"}

----------------------------------------------------------------------------
(* The tidy shot table: one row per shot-on-goal or goal play *)

NetX == 89          \* |x| of both goal points, (89, 0) and (-89, 0)

\* NHLTidyDataCreator._get_attacking_net; game_home is game_teams[game_id]
\* ['home_team'], or None when the game is not in game_teams
GetAttackingNet(team_id, period, game_home) ==
    IF game_home = None
    THEN (IF period % 2 = 1 THEN "left" ELSE "right")
    ELSE IF team_id = game_home
         THEN (IF period % 2 = 1 THEN "left" ELSE "right")
         ELSE (IF period % 2 = 1 THEN "right" ELSE "left")

\* NHLTidyDataCreator._calculate_distance_and_angle: <<distance, angle>>
CalculateDistanceAndAngle(x, y, net_side) ==
    IF x = NaN \/ y = NaN THEN <<None, None>>
    ELSE LET net_x    == IF net_side = "right" THEN NetX ELSE -NetX
             adjacent == Abs(Val(x) - net_x)
             opposite == Abs(Val(y))
         IN  << Some(Hypot2(Val(x) - net_x, Val(y))),
                Some(IF adjacent = 0 THEN 90 ELSE ArctanDeg(opposite, adjacent)) >>

\* pd.to_numeric(..., errors='coerce') of a coordinate column entry
ToNumeric(c) == IF c = None THEN NaN ELSE c

\* unary minus of a float column entry
Neg(c) == IF c = NaN THEN NaN ELSE Some(-Val(c))

\* _add_time_features.time_to_seconds of the extracted period_time
TimeToSeconds(clock) ==
    IF clock = None THEN 0 ELSE Val(clock)[1] * 60 + Val(clock)[2]

\* NHLDataProcessor._extract_event_data for the play at index src of the
\* play list, with the coordinates as pd.to_numeric leaves them
ExtractEventData(play, src) ==
    [ src        |-> src,
      event_type |-> Val(play.typeDescKey),
      period     |-> IF play.periodDescriptor = None THEN 1
                     ELSE Val(play.periodDescriptor).number,
      period_time |-> play.timeInPeriod,
      x_coord    |-> ToNumeric(play.details.xCoord),
      y_coord    |-> ToNumeric(play.details.yCoord),
      team_id    |-> play.details.eventOwnerTeamId ]

\* NHLDataProcessor._process_single_game: the plays that become rows
IsShotOrGoal(play) == play.typeDescKey \in {Some("shot-on-goal"), Some("goal")}

RECURSIVE EventsFrom(_, _)
EventsFrom(plays, i) ==
    IF i > Len(plays) THEN <<>>
    ELSE IF IsShotOrGoal(plays[i])
         THEN <<ExtractEventData(plays[i], i)>> \o EventsFrom(plays, i + 1)
         ELSE EventsFrom(plays, i + 1)

ProcessSingleGame(plays) == EventsFrom(plays, 1)

MinPeriod1Rows == 10    \* fewer first-period rows than this: all rows are used

\* the distinct team ids of the rows, in order of first appearance
UniqueTeams(events) ==
    LET first == {i \in DOMAIN events :
                     \A j \in DOMAIN events : j < i => events[j].team_id # events[i].team_id}
    IN  [k \in 1..Cardinality(first) |->
            events[CHOOSE i \in first : Cardinality({j \in first : j <= i}) = k].team_id]

\* NHLTidyDataCreator._determine_home_away_teams for the rows of one game:
\* the game's 'home_team', or None when the game gets no entry
DetermineHomeTeam(events) ==
    LET teams == UniqueTeams(events)
        p1    == SelectSeq(events, LAMBDA e : e.period = 1)
        data  == IF Len(p1) < MinPeriod1Rows THEN events ELSE p1
        Left(t)  == Cardinality({i \in DOMAIN data : data[i].team_id = t
                        /\ data[i].x_coord # NaN /\ Val(data[i].x_coord) < 0})
        Right(t) == Cardinality({i \in DOMAIN data : data[i].team_id = t
                        /\ data[i].x_coord # NaN /\ Val(data[i].x_coord) > 0})
        \* left_ratio as a fraction <<numerator, denominator>>
        Ratio(t) == IF Left(t) + Right(t) > 0
                    THEN <<Left(t), Left(t) + Right(t)>> ELSE <<1, 2>>
        Greater(a, b) == a[1] * b[2] > b[1] * a[2]
    IN  IF Len(teams) # 2 THEN None
        ELSE IF Greater(Ratio(teams[2]), Ratio(teams[1]))
             THEN Some(Val(teams[2])) ELSE Some(Val(teams[1]))

\* the coordinates are negated for the rows attacking the right net
TransformCoordinatesRightNet(row) ==
    IF row.attacking_net = "right"
    THEN [row EXCEPT !.x_coord = Neg(@), !.y_coord = Neg(@)]
    ELSE row

\* NHLTidyDataCreator._transform_coordinates on one row
TransformCoordinates(row) ==
    IF row.attacking_net = "left"
    THEN [row EXCEPT !.x_coord = Neg(@), !.y_coord = Neg(@)]
    ELSE row

\* NHLTidyDataCreator._calculate_shot_features and _add_time_features on one
\* extracted row
TidyRow(e, game_home) ==
    LET net == GetAttackingNet(e.team_id, e.period, game_home)
        da  == CalculateDistanceAndAngle(e.x_coord, e.y_coord, net)
    IN  TransformCoordinates(
          [ src                 |-> e.src,
            event_type          |-> e.event_type,
            period              |-> e.period,
            period_time_seconds |-> TimeToSeconds(e.period_time),
            team_id             |-> e.team_id,
            attacking_net       |-> net,
            distance_from_net   |-> da[1],
            shot_angle          |-> da[2],
            x_coord             |-> e.x_coord,
            y_coord             |-> e.y_coord ])

\* the rows of the tidy table for one game's play list
TidyRows(plays) ==
    LET events == ProcessSingleGame(plays)
    IN  [k \in DOMAIN events |-> TidyRow(events[k], DetermineHomeTeam(events))]

----------------------------------------------------------------------------
(* FeatureEngineering: helpers *)

\* FeatureEngineering._to_seconds
ToSeconds(t) == IF t = None THEN None ELSE Some(Val(t)[1] * 60 + Val(t)[2])

\* str.lower() on the type tags of the model
Lower(s) ==
    CASE s = "Missed-Shot" -> "missed-shot"
      [] OTHER -> s

\* "shot" in s, on the lower-cased type tags of the model
ContainsShot(s) == s \in {"shot-on-goal", "blocked-shot", "missed-shot"}

\* int(c) of one character: the digit, or None for a ValueError
IntOfChar(c) ==
    CASE c = "0" -> Some(0) [] c = "1" -> Some(1) [] c = "2" -> Some(2)
      [] c = "3" -> Some(3) [] c = "4" -> Some(4) [] c = "5" -> Some(5)
      [] c = "6" -> Some(6) [] c = "7" -> Some(7) [] c = "8" -> Some(8)
      [] c = "9" -> Some(9) [] OTHER -> None

\* situation_code[i] of Python (0-based): the character, or None when indexing
\* raises (the code is None or too short)
CharAt(code, i) ==
    IF code = None THEN None
    ELSE IF i + 1 \in DOMAIN Val(code) THEN Some(Val(code)[i + 1]) ELSE None

\* the period number the filter of _get_last_event compares with
FilterPeriod(row) == 1

\* the exception the filter condition of _get_last_event raises on one play
KeepRaises(play, row) ==
    IF play.timeInPeriod = None THEN "TypeError"
    ELSE IF Val(ToSeconds(play.timeInPeriod)) <= row.period_time_seconds
            /\ play.periodDescriptor = None
         THEN "AttributeError"
         ELSE "none"

\* the filter without its bound on the clock
KeepPeriodOnly(play, row) ==
    Val(play.periodDescriptor).number = FilterPeriod(row)

\* the filter condition of _get_last_event on one play
Keep(play, row) ==
    /\ Val(ToSeconds(play.timeInPeriod)) <= row.period_time_seconds
    /\ Val(play.periodDescriptor).number = FilterPeriod(row)

\* FeatureEngineering._get_last_event: the exception it raises, and otherwise
\* the indices (in the play list) of the plays it returns, in order
GetLastEvent(game, row) ==
    IF game.kind = "noplays" THEN [raises |-> "KeyError", idx |-> <<>>]
    ELSE LET plays == game.plays
             bad   == {i \in DOMAIN plays : KeepRaises(plays[i], row) # "none"}
         IN  IF bad # {}
             THEN [raises |-> KeepRaises(plays[Min(bad)], row), idx |-> <<>>]
             ELSE [raises |-> "none",
                   idx |-> SelectSeq([i \in DOMAIN plays |-> i],
                                     LAMBDA i : Keep(plays[i], row))]

\* FeatureEngineering._format_event; isDict is false for the record built for a
\* non-dict event, which has no "situationCode" and no details["teamId"]
FormatEvent(event) ==
    IF event = None
    THEN [ isDict |-> FALSE, typeDescKey |-> None, situationCode |-> None,
           xCoord |-> None, yCoord |-> None, teamId |-> None,
           timeInPeriod |-> None ]
    ELSE [ isDict |-> TRUE,
           typeDescKey   |-> Val(event).typeDescKey,
           situationCode |-> Val(event).situationCode,
           xCoord        |-> Val(event).details.xCoord,
           yCoord        |-> Val(event).details.yCoord,
           teamId        |-> Val(event).details.eventOwnerTeamId,
           timeInPeriod  |-> Val(event).timeInPeriod ]

\* feature_engineering_2.compute_angle
ComputeAngle(x, y) ==
    IF x = None \/ y = None THEN None
    ELSE LET ay         == Abs(Val(y))
             dist_right == Hypot2(Val(x) - NetX, ay)
             dist_left  == Hypot2(Val(x) + NetX, ay)
             net_x      == IF dist_right < dist_left THEN NetX ELSE -NetX
         IN  Some(Arctan2Deg(0 - ay, net_x - Val(x)))

\* the function answering True where reading the code raises
IsPowerplayTrueOnError(event) ==
    LET c1 == CharAt(event.situationCode, 1)
        c2 == CharAt(event.situationCode, 2)
    IN  IF c1 = None \/ c2 = None THEN TRUE ELSE c1 # c2

\* feature_engineering_2.is_powerplay
IsPowerplay(event) ==
    LET c1 == CharAt(event.situationCode, 1)
        c2 == CharAt(event.situationCode, 2)
    IN  IF c1 = None \/ c2 = None THEN FALSE ELSE c1 # c2

\* the function scanning the prefix forward: the earliest event that is not a
\* power play
ComputeTimeSincePowerplayEarliest(previous_events) ==
    IF previous_events = <<>> THEN 0
    ELSE LET n       == Len(previous_events)
             current == previous_events[n]
             notpp   == {i \in 1..n : ~IsPowerplay(previous_events[i])}
             start   == IF notpp = {} THEN current
                        ELSE previous_events[CHOOSE i \in notpp : \A j \in notpp : i <= j]
         IN  IF current.timeInPeriod = None THEN 0
             ELSE IF ~IsPowerplay(current) THEN 0
             ELSE IF start.timeInPeriod = None THEN 0
             ELSE Val(ToSeconds(current.timeInPeriod)) - Val(ToSeconds(start.timeInPeriod))

\* the difference is taken from the start event's clock to the current one's
\* the other way round
ComputeTimeSincePowerplayReversed(previous_events) ==
    IF previous_events = <<>> THEN 0
    ELSE LET n       == Len(previous_events)
             current == previous_events[n]
             notpp   == {i \in 1..n : ~IsPowerplay(previous_events[i])}
             start   == IF notpp = {} THEN current
                        ELSE previous_events[CHOOSE i \in notpp : \A j \in notpp : j <= i]
         IN  IF current.timeInPeriod = None THEN 0
             ELSE IF ~IsPowerplay(current) THEN 0
             ELSE IF start.timeInPeriod = None THEN 0
             ELSE Val(ToSeconds(start.timeInPeriod)) - Val(ToSeconds(current.timeInPeriod))

\* feature_engineering_2.compute_time_since_powerplay
ComputeTimeSincePowerplay(previous_events) ==
    IF previous_events = <<>> THEN 0
    ELSE LET n       == Len(previous_events)
             current == previous_events[n]
             notpp   == {i \in 1..n : ~IsPowerplay(previous_events[i])}
             start   == IF notpp = {} THEN current
                        ELSE previous_events[CHOOSE i \in notpp : \A j \in notpp : j <= i]
         IN  IF current.timeInPeriod = None THEN 0
             ELSE IF ~IsPowerplay(current) THEN 0
             ELSE IF start.timeInPeriod = None THEN 0
             ELSE Val(ToSeconds(current.timeInPeriod)) - Val(ToSeconds(start.timeInPeriod))

----------------------------------------------------------------------------
(* FeatureEngineering.feature_engineering_2: the body of the row loop *)

DefaultCount == 5   \* friendly_player_count = opponent_player_count = 5 of the except branch

\* a quotient sqrt(d2) / t with t # 0, kept as its operands
Quotient(d2, t) == <<d2, t, "sqrt(.)/.">>

\* lines 160-163: row["period_time_seconds"] - self._to_seconds(...), None on
\* an exception
TimeSinceLastEvent(row, last_event) ==
    IF ToSeconds(last_event.timeInPeriod) = None THEN None
    ELSE Some(row.period_time_seconds - Val(ToSeconds(last_event.timeInPeriod)))

\* lines 164-169: math.hypot of the row's coordinates minus the last event's
DistanceFromLastEvent(row, last_event) ==
    IF last_event.xCoord # None /\ last_event.yCoord # None
    THEN IF row.x_coord = NaN \/ row.y_coord = NaN THEN NaN
         ELSE Some(Hypot2(Val(row.x_coord) - Val(last_event.xCoord),
                          Val(row.y_coord) - Val(last_event.yCoord)))
    ELSE None

\* the expression without its "blocked-shot" conjunct
ReboundTryAnyShot(current_event, last_event) ==
    IF last_event.typeDescKey = None THEN [raises |-> TRUE, value |-> FALSE]
    ELSE IF ~ContainsShot(Lower(Val(last_event.typeDescKey)))
         THEN [raises |-> FALSE, value |-> FALSE]
    ELSE [raises |-> FALSE, value |-> current_event.teamId = last_event.teamId]

\* lines 172-176, the body of the try: the value of the expression, or
\* raises = TRUE when evaluating it raises
ReboundTry(current_event, last_event) ==
    IF last_event.typeDescKey = None THEN [raises |-> TRUE, value |-> FALSE]
    ELSE LET t == Lower(Val(last_event.typeDescKey))
         IN  IF ~ContainsShot(t) THEN [raises |-> FALSE, value |-> FALSE]
             ELSE IF t = "blocked-shot" THEN [raises |-> FALSE, value |-> FALSE]
             ELSE IF ~current_event.isDict \/ ~last_event.isDict
                  THEN [raises |-> TRUE, value |-> FALSE]
             ELSE [raises |-> FALSE,
                   value  |-> current_event.teamId = last_event.teamId]

\* lines 171-178
Rebound(current_event, last_event) ==
    LET r == ReboundTry(current_event, last_event)
    IN  IF r.raises THEN FALSE ELSE r.value

\* the statement without the reduction of a difference above 180
AngleChangeNoReflect(row, rebound, last_event) ==
    IF ~rebound THEN [raises |-> "none", value |-> Some(0)]
    ELSE LET last_event_angle == ComputeAngle(last_event.xCoord, last_event.yCoord)
         IN  IF last_event_angle = None THEN [raises |-> "TypeError", value |-> None]
             ELSE IF row.shot_angle = None THEN [raises |-> "none", value |-> NaN]
             ELSE [raises |-> "none",
                   value  |-> Some(Abs(Val(row.shot_angle) - Val(last_event_angle)))]

\* the statement without its test of rebound
AngleChangeAlways(row, rebound, last_event) ==
    LET last_event_angle == ComputeAngle(last_event.xCoord, last_event.yCoord)
    IN  IF last_event_angle = None THEN [raises |-> "none", value |-> Some(0)]
        ELSE IF row.shot_angle = None THEN [raises |-> "none", value |-> NaN]
        ELSE LET diff == Abs(Val(row.shot_angle) - Val(last_event_angle))
             IN  [raises |-> "none",
                  value  |-> Some(IF diff > 180 THEN 360 - diff ELSE diff)]

\* lines 180-186: the exception raised, and otherwise angle_change
AngleChange(row, rebound, last_event) ==
    IF ~rebound THEN [raises |-> "none", value |-> Some(0)]
    ELSE LET last_event_angle == ComputeAngle(last_event.xCoord, last_event.yCoord)
         IN  IF last_event_angle = None THEN [raises |-> "TypeError", value |-> None]
             ELSE IF row.shot_angle = None THEN [raises |-> "none", value |-> NaN]
             ELSE LET diff == Abs(Val(row.shot_angle) - Val(last_event_angle))
                  IN  [raises |-> "none",
                       value  |-> Some(IF diff > 180 THEN 360 - diff ELSE diff)]

\* the division without the except branch taken for a zero divisor
EventSpeedNoZeroGuard(distance_from_last_event, time_since_last_event) ==
    IF distance_from_last_event = None \/ time_since_last_event = None THEN Some(0)
    ELSE IF distance_from_last_event = NaN THEN NaN
    ELSE Quotient(Val(distance_from_last_event), Val(time_since_last_event))

\* lines 188-191
EventSpeed(distance_from_last_event, time_since_last_event) ==
    IF distance_from_last_event = None \/ time_since_last_event = None THEN Some(0)
    ELSE IF Val(time_since_last_event) = 0 THEN Some(0)
    ELSE IF distance_from_last_event = NaN THEN NaN
    ELSE Quotient(Val(distance_from_last_event), Val(time_since_last_event))

\* int(situation_code[i]): None when it raises
DigitAt(code, i) ==
    IF CharAt(code, i) = None THEN None ELSE IntOfChar(Val(CharAt(code, i)))

\* the statement reading the digits in the home team's order for both teams
PlayerCountsHomeOrder(current_event, home, away, friendly, opponent) ==
    LET code == current_event.situationCode
        d1   == DigitAt(code, 1)
        d2   == DigitAt(code, 2)
        dflt == [friendly |-> Some(DefaultCount), opponent |-> Some(DefaultCount)]
    IN  IF ~current_event.isDict THEN dflt
        ELSE IF current_event.teamId \in {Some(home), Some(away)}
             THEN (IF d1 = None \/ d2 = None THEN dflt
                   ELSE [friendly |-> d2, opponent |-> d1])
        ELSE [friendly |-> friendly, opponent |-> opponent]

\* lines 193-203: the two counts after the statement, given the two counts
\* before it (each a number or Unbound)
PlayerCounts(current_event, home, away, friendly, opponent) ==
    LET code == current_event.situationCode
        d1   == DigitAt(code, 1)
        d2   == DigitAt(code, 2)
        dflt == [friendly |-> Some(DefaultCount), opponent |-> Some(DefaultCount)]
    IN  IF ~current_event.isDict THEN dflt
        ELSE IF current_event.teamId = Some(home)
             THEN (IF d1 = None \/ d2 = None THEN dflt
                   ELSE [friendly |-> d2, opponent |-> d1])
        ELSE IF current_event.teamId = Some(away)
             THEN (IF d1 = None \/ d2 = None THEN dflt
                   ELSE [friendly |-> d1, opponent |-> d2])
        ELSE [friendly |-> friendly, opponent |-> opponent]

\* the event of a prefix at position k from its end (1 is the last), None when
\* the index is out of range
FromEnd(previous_events, k) ==
    IF Len(previous_events) >= k
    THEN Some(previous_events[Len(previous_events) + 1 - k]) ELSE None

\* lines 144-220 for one row: the exception raised (or "none"), the values
\* written to the row, and the two counts the locals hold afterwards.
\* cur and last are the play-list indices of the two candidates (0: None).
ProcessRow(game, row, home, away, friendly, opponent) ==
    LET got == GetLastEvent(game, row)
        previous_events == [k \in DOMAIN got.idx |-> game.plays[got.idx[k]]]
        current_event == FormatEvent(FromEnd(previous_events, 1))
        last_event    == FormatEvent(FromEnd(previous_events, 2))
        time_since_last_event    == TimeSinceLastEvent(row, last_event)
        distance_from_last_event == DistanceFromLastEvent(row, last_event)
        rebound == Rebound(current_event, last_event)
        angle   == AngleChange(row, rebound, last_event)
        counts  == PlayerCounts(current_event, home, away, friendly, opponent)
        raises  == IF got.raises # "none" THEN got.raises
                   ELSE IF angle.raises # "none" THEN angle.raises
                   ELSE IF counts.friendly = Unbound THEN "UnboundLocalError"
                   ELSE "none"
    IN  [ raises   |-> raises,
          friendly |-> IF got.raises = "none" /\ angle.raises = "none"
                       THEN counts.friendly ELSE friendly,
          opponent |-> IF got.raises = "none" /\ angle.raises = "none"
                       THEN counts.opponent ELSE opponent,
          values   |->
            IF raises # "none" THEN <<>>
            ELSE << [ src  |-> row.src,
                      prefix |-> got.idx,
                      cur  |-> IF Len(got.idx) >= 1 THEN got.idx[Len(got.idx)] ELSE 0,
                      last |-> IF Len(got.idx) >= 2 THEN got.idx[Len(got.idx) - 1] ELSE 0,
                      last_event_type       |-> last_event.typeDescKey,
                      last_event_x          |-> last_event.xCoord,
                      last_event_y          |-> last_event.yCoord,
                      time_since_last_event |-> time_since_last_event,
                      last_event_distance   |-> distance_from_last_event,
                      rebound               |-> rebound,
                      angle_change          |-> angle.value,
                      event_speed           |-> EventSpeed(distance_from_last_event,
                                                           time_since_last_event),
                      friendly_player_count |-> Val(counts.friendly),
                      opponent_player_count |-> Val(counts.opponent),
                      player_count_diff     |-> Val(counts.friendly) - Val(counts.opponent),
                      time_since_powerplay  |-> ComputeTimeSincePowerplay(previous_events) ] >> ]

----------------------------------------------------------------------------
(* FeatureEngineering.feature_engineering_2: the columns of the table df *)

\* lines 126-137: df[column] = default, for the twelve columns assigned before
\* the loop; an assignment replaces the column when the table already has it.
\* "last_event_distance" is none of the twelve: the table has it only once a
\* row has been written
ResetColumns(row) ==
    [ src |-> row.src, event_type |-> row.event_type, period |-> row.period,
      period_time_seconds |-> row.period_time_seconds, team_id |-> row.team_id,
      attacking_net |-> row.attacking_net,
      distance_from_net |-> row.distance_from_net, shot_angle |-> row.shot_angle,
      x_coord |-> row.x_coord, y_coord |-> row.y_coord,
      last_event_distance |-> IF "last_event_distance" \in DOMAIN row
                              THEN row.last_event_distance ELSE Absent,
      last_event_type          |-> None,
      last_event_x             |-> None,
      last_event_y             |-> None,
      time_since_last_event    |-> None,
      distance_from_last_event |-> None,
      rebound                  |-> FALSE,
      angle_change             |-> Some(0),
      event_speed              |-> Some(0),
      friendly_player_count    |-> DefaultCount,
      opponent_player_count    |-> DefaultCount,
      player_count_diff        |-> 0,
      time_since_powerplay     |-> 0 ]

\* the loop writing the values over the cells of the row when one of its keys
\* names a column the derivation reads
DfAtOverShotAngle(row, values) ==
    [row EXCEPT !.last_event_type = values.last_event_type,
                !.last_event_x = values.last_event_x,
                !.last_event_y = values.last_event_y,
                !.time_since_last_event = values.time_since_last_event,
                !.last_event_distance = values.last_event_distance,
                !.rebound = values.rebound,
                !.shot_angle = values.angle_change,
                !.angle_change = values.angle_change,
                !.event_speed = values.event_speed,
                !.friendly_player_count = values.friendly_player_count,
                !.opponent_player_count = values.opponent_player_count,
                !.player_count_diff = values.player_count_diff,
                !.time_since_powerplay = values.time_since_powerplay]

\* lines 222-223: df.at[row.name, col] = val for every key of `values`; a key
\* the table has no column for ("last_event_distance" in a first run) gets one
DfAt(row, values) ==
    [row EXCEPT !.last_event_type = values.last_event_type,
                !.last_event_x = values.last_event_x,
                !.last_event_y = values.last_event_y,
                !.time_since_last_event = values.time_since_last_event,
                !.last_event_distance = values.last_event_distance,
                !.rebound = values.rebound,
                !.angle_change = values.angle_change,
                !.event_speed = values.event_speed,
                !.friendly_player_count = values.friendly_player_count,
                !.opponent_player_count = values.opponent_player_count,
                !.player_count_diff = values.player_count_diff,
                !.time_since_powerplay = values.time_since_powerplay]

----------------------------------------------------------------------------
(* FeatureEngineering.feature_engineering_2: the loop over games and rows *)

\* the games of the model: a play list and the rows of the tidy table made
\* from it (a game with no shot or goal has no row, hence no group)
Games ==
    { g \in { [plays |-> tl, rows |-> TidyRows(tl)] : tl \in Timelines } :
          g.rows # <<>> }

\* the games as the table df holds their rows once lines 126-137 have assigned
\* the derived columns their defaults
Tables ==
    { [plays |-> g.plays, rows |-> [k \in DOMAIN g.rows |-> ResetColumns(g.rows[k])]] :
          g \in Games }

\* the single-event pipeline and the download functions before they are used
ShotIdle == [stage |-> "idle"]
StoreIdle == [stage |-> "idle"]

\* FeatureEngineering.__init__, and feature_engineering_2 about to take its
\* first group
FeInit ==
    /\ pc = "games"
    /\ exc = "none"
    /\ gi = 0
    /\ cached_game = 0
    /\ payload = None
    /\ home_team = Unbound
    /\ away_team = Unbound
    /\ group = <<>>
    /\ ri = 0
    /\ out = <<>>
    /\ friendly_player_count = Unbound
    /\ opponent_player_count = Unbound
    /\ disk = "ok"

Init ==
    /\ FeInit
    /\ shot = ShotIdle
    /\ store = StoreIdle

\* the slot is filled when it is empty and taken as it is otherwise
LoadRawGameIfEmpty(game_id, file) ==
    IF payload = None THEN [cached_game |-> game_id, payload |-> Some(file)]
    ELSE [cached_game |-> cached_game, payload |-> payload]

\* FeatureEngineering._load_raw_game, lines 46-47, for a file json.load can
\* read: the slot self._cached_game afterwards
LoadRawGame(game_id, file) == [cached_game |-> game_id, payload |-> Some(file)]

\* lines 139-142: the for statement takes the next group of df, then
\* _load_raw_game reads its payload file and the two team ids are looked up.
\* The file holds the plays the group was made from, or is damaged.
NextGame ==
    /\ pc = "games"
    /\ gi < MaxGames
    /\ \E g \in Tables, kind \in PayloadKinds :
        LET file == Payload(kind, IF kind = "ok" THEN g.plays ELSE <<>>)
            slot == LoadRawGame(gi + 1, file)
        IN  /\ kind = "ok" \/ Len(g.plays) = 1
            /\ gi' = gi + 1
            /\ group' = g.rows
            /\ ri' = 0
            /\ out' = <<>>
            /\ disk' = kind
            /\ UNCHANGED <<friendly_player_count, opponent_player_count, shot, store>>
            /\ \/ /\ kind = "unreadable"
                  /\ pc' = "raised"
                  /\ exc' = "JSONDecodeError"
                  /\ UNCHANGED <<cached_game, payload, home_team, away_team>>
               \/ /\ kind = "noteams"
                  /\ cached_game' = slot.cached_game
                  /\ payload' = slot.payload
                  /\ pc' = "raised"
                  /\ exc' = "KeyError"
                  /\ UNCHANGED <<home_team, away_team>>
               \/ /\ kind \in {"ok", "noplays"}
                  /\ cached_game' = slot.cached_game
                  /\ payload' = slot.payload
                  /\ home_team' = Val(slot.payload).homeTeam.id
                  /\ away_team' = Val(slot.payload).awayTeam.id
                  /\ pc' = "rows"
                  /\ exc' = "none"

\* lines 143-223: one iteration of the row loop
NextRow ==
    /\ pc = "rows"
    /\ ri < Len(group)
    /\ LET r == ProcessRow(Val(payload), group[ri + 1], home_team, away_team,
                           friendly_player_count, opponent_player_count)
       IN  /\ friendly_player_count' = r.friendly
           /\ opponent_player_count' = r.opponent
           /\ \/ /\ r.raises # "none"
                 /\ pc' = "raised"
                 /\ exc' = r.raises
                 /\ UNCHANGED <<ri, out, group>>
              \/ /\ r.raises = "none"
                 /\ out' = Append(out, r.values[1])
                 /\ group' = [group EXCEPT ![ri + 1] = DfAt(@, r.values[1])]
                 /\ ri' = ri + 1
                 /\ UNCHANGED <<pc, exc>>
    /\ UNCHANGED <<gi, cached_game, payload, home_team, away_team, disk, shot, store>>

\* what the model keeps of the payload of a finished game: that the slot
\* still holds one, with its team ids
Stale == Payload("stale", <<>>)

\* line 143: the rows of the group are exhausted, control is back at the for
\* statement over the groups; the model stops tracking the finished group, and
\* the slot keeps the payload it holds
EndGroup ==
    /\ pc = "rows"
    /\ ri = Len(group)
    /\ pc' = "games"
    /\ group' = <<>>
    /\ ri' = 0
    /\ out' = <<>>
    /\ payload' = Some(Stale)
    /\ UNCHANGED <<exc, gi, cached_game, home_team, away_team,
                   friendly_player_count, opponent_player_count, disk, shot, store>>

\* lines 224-230: the table has no further group
Return ==
    /\ pc = "games"
    /\ pc' = "returned"
    /\ UNCHANGED <<exc, gi, cached_game, payload, home_team, away_team, group, ri,
                   out, friendly_player_count, opponent_player_count, disk, shot, store>>

Next == NextGame \/ NextRow \/ EndGroup \/ Return

Spec == Init /\ [][Next]_vars

----------------------------------------------------------------------------
(* One shot event from its raw record to its derived row: extraction
   (NHLDataProcessor), the tidy table (NHLTidyDataCreator) and the columns
   FeatureEngineering derives from the tidy row alone.  A text cell is the
   pair <<prefix, rest>> of the string prefix + rest. *)

\* details.get('goalieInNetId', ''): the key absent, null, or a player id
\* (an id is held as its decimal text)
GoalieIds == {"31", "32", "33", "34"}
GoalieFields == {Absent, None} \cup {Some(g) : g \in GoalieIds}

\* str(...) of that value
StrOfId(g) == IF g = Absent THEN "" ELSE IF g = None THEN "None" ELSE Val(g)

\* int(...) of an id text: None when it raises ValueError
IntOfId(t) ==
    CASE t = "31" -> Some(31) [] t = "32" -> Some(32) [] t = "33" -> Some(33)
      [] t = "34" -> Some(34) [] OTHER -> None

\* _extract_game_player_mapping of the payloads of the model: the roster lists
\* player 31 by name and player 33 with empty names
GamePlayerMapping(id) ==
    CASE id = "31" -> Some(<<"", "Jane Doe">>)
      [] id = "33" -> Some(<<"", "">>)
      [] OTHER -> None

\* lines 192-207 of _extract_event_data: event_data['goalie_name']
\* (self.player_mapping is empty unless build_player_mapping has run)
ExtractGoalieName(goalieInNetId) ==
    LET goalie_id == StrOfId(goalieInNetId)
    IN  IF GamePlayerMapping(goalie_id) # None THEN Val(GamePlayerMapping(goalie_id))
        ELSE <<"Goalie_", goalie_id>>

\* a text cell written by to_csv and read back by pd.read_csv: the empty
\* string comes back as NaN
ReadCsv(cell) == IF cell = <<"", "">> THEN NaN ELSE cell

\* _replace_ids_with_real_names.extract_id
ExtractId(id_string) ==
    IF id_string = NaN THEN None
    ELSE IF id_string[1] = "Goalie_" THEN IntOfId(id_string[2])
    ELSE None

\* self.goalie_mapping of NHLTidyDataCreator: the goalies named in some raw file
GoalieMapping(id) ==
    CASE id = 31 -> Some(<<"", "Jane Doe">>)
      [] id = 32 -> Some(<<"", "Sam Roe">>)
      [] OTHER -> None

\* _replace_ids_with_real_names on one goalie_name cell
ReplaceIdsWithRealNames(goalie_id_str) ==
    LET goalie_id == ExtractId(goalie_id_str)
    IN  IF goalie_id # None /\ GoalieMapping(Val(goalie_id)) # None
        THEN Val(GoalieMapping(Val(goalie_id)))
        ELSE goalie_id_str

\* line 125: df["goalie_name"].isna().astype(int)
EmptyNet(goalie_name) == IF goalie_name = NaN THEN 1 ELSE 0

\* the raw shot events of the single-event pipeline: a shot-on-goal of the
\* home team at a position of the rink, some behind a goal line or unknown
ShotXs == {-95, -79, 0, 79, 89, 95}
ShotYs == {-10, 0, 10}
ShotPlays ==
    { Play([typeDescKey |-> Some("shot-on-goal"), team |-> Some(HomeId),
            x |-> x, y |-> y, situationCode |-> Some(Code1551)],
           Some([number |-> p]), Some(<<0, 10>>)) :
        x \in {Some(v) : v \in ShotXs} \cup {None},
        y \in {Some(v) : v \in ShotYs} \cup {None},
        p \in {1, 2} }

InitShot ==
    /\ FeInit
    /\ store = StoreIdle
    /\ \E play \in ShotPlays, g \in GoalieFields :
          shot = [stage |-> "raw", play |-> play, goalieInNetId |-> g]

\* NHLDataProcessor._process_single_game on the payload holding the event
ShotExtract ==
    /\ shot.stage = "raw"
    /\ shot' = [stage |-> "processed", play |-> shot.play,
                goalieInNetId |-> shot.goalieInNetId,
                event_data  |-> ProcessSingleGame(<<shot.play>>)[1],
                goalie_name |-> ExtractGoalieName(shot.goalieInNetId)]
    /\ UNCHANGED <<fe_vars, store>>

\* NHLTidyDataCreator.create_tidy_dataframe on the table holding the event
ShotTidy ==
    /\ shot.stage = "processed"
    /\ shot' = [stage |-> "tidy", play |-> shot.play,
                goalieInNetId |-> shot.goalieInNetId,
                row |-> TidyRows(<<shot.play>>)[1],
                goalie_name |-> ReplaceIdsWithRealNames(ReadCsv(shot.goalie_name))]
    /\ UNCHANGED <<fe_vars, store>>

\* FeatureEngineering on the tidy table holding the event, up to line 125
ShotDerive ==
    /\ shot.stage = "tidy"
    /\ shot' = [stage |-> "derived", play |-> shot.play,
                goalieInNetId |-> shot.goalieInNetId,
                row |-> shot.row,
                goalie_name |-> ReadCsv(shot.goalie_name),
                empty_net |-> EmptyNet(ReadCsv(shot.goalie_name))]
    /\ UNCHANGED <<fe_vars, store>>

NextShot == ShotExtract \/ ShotTidy \/ ShotDerive

SpecShot == InitShot /\ [][NextShot]_vars

----------------------------------------------------------------------------
(* The two download functions and their cache directories *)

MaxCalls == 2       \* calls of a download function in one behaviour

GameIds == {"2017020001", "2017020002"}

\* a JSON object of the play-by-play endpoint, by the two keys that are
\* tested; a key the object lacks is Absent
JsonObject(id, plays) == [id |-> id, plays |-> plays]

\* what the endpoint answers to a request for a game: a failure (connection
\* error, error status, body that is no JSON), or an object, with one of two
\* play lists, that may lack "id" or "plays"
Responses(game_id) ==
    {[ok |-> FALSE, body |-> JsonObject(Absent, Absent)]} \cup
    { [ok |-> TRUE, body |-> JsonObject(id, plays)] :
        id \in {Absent, Some(game_id)},
        plays \in {Absent, Some("plays-1"), Some("plays-2")} }

\* a path of the cache directory: no file, a file that is no JSON text, or
\* the JSON text of an object
NoFile == [kind |-> "missing", data |-> JsonObject(Absent, Absent)]
Garbage == [kind |-> "garbage", data |-> JsonObject(Absent, Absent)]

\* json.dump and json.load
JsonDump(data) == [kind |-> "json", data |-> data]
JsonLoad(file) ==
    IF file.kind = "json" THEN [raises |-> "none", data |-> Some(file.data)]
    ELSE [raises |-> "JSONDecodeError", data |-> None]

\* cache.cache_path_for_game: one path per game
CachePathForGame(game_id) == game_id

\* cache.read_json and cache.write_json
ReadJson(files, path) == JsonLoad(files[path])
WriteJson(files, path, data) == [files EXCEPT ![path] = JsonDump(data)]

\* http.get_json: the object of the response, or the request's exception
GetJson(response) ==
    IF response.ok THEN [raises |-> "none", data |-> Some(response.body)]
    ELSE [raises |-> "HTTPError", data |-> None]

\* os.path.exists, Path.exists
Exists(files, path) == files[path].kind # "missing"

\* the cache is consulted whatever force says
FetchAndCachePbpIgnoringForce(files, game_id, force, response) ==
    LET path == CachePathForGame(game_id)
    IN  IF Exists(files, path)
        THEN LET r == ReadJson(files, path)
             IN  [files |-> files, requested |-> FALSE,
                  raises |-> r.raises, result |-> r.data]
        ELSE LET r == GetJson(response)
             IN  IF r.raises # "none"
                 THEN [files |-> files, requested |-> TRUE,
                       raises |-> r.raises, result |-> None]
                 ELSE [files |-> WriteJson(files, path, Val(r.data)), requested |-> TRUE,
                       raises |-> "none", result |-> r.data]

\* fetch.fetch_and_cache_pbp: the files afterwards, whether a request was
\* issued, the exception that escapes and the value returned
FetchAndCachePbp(files, game_id, force, response) ==
    LET path == CachePathForGame(game_id)
    IN  IF ~force /\ Exists(files, path)
        THEN LET r == ReadJson(files, path)
             IN  [files |-> files, requested |-> FALSE,
                  raises |-> r.raises, result |-> r.data]
        ELSE LET r == GetJson(response)
             IN  IF r.raises # "none"
                 THEN [files |-> files, requested |-> TRUE,
                       raises |-> r.raises, result |-> None]
                 ELSE [files |-> WriteJson(files, path, Val(r.data)), requested |-> TRUE,
                       raises |-> "none", result |-> r.data]

\* the response is written without the test for its two keys
DownloadGameDataUnchecked(files, game_id, force_redownload, response) ==
    LET file_path == game_id
        cached    == JsonLoad(files[file_path])
    IN  IF Exists(files, file_path) /\ ~force_redownload /\ cached.raises = "none"
        THEN [files |-> files, requested |-> FALSE, raises |-> "none",
              result |-> cached.data]
        ELSE IF ~response.ok
             THEN [files |-> files, requested |-> TRUE, raises |-> "none",
                   result |-> None]
             ELSE [files |-> [files EXCEPT ![file_path] = JsonDump(response.body)],
                   requested |-> TRUE, raises |-> "none",
                   result |-> Some(response.body)]

\* NHLDataAcquisition.download_game_data: the files afterwards, whether a
\* request was issued, the exception that escapes (none does) and the value
\* returned
DownloadGameData(files, game_id, force_redownload, response) ==
    LET file_path == game_id
        cached    == JsonLoad(files[file_path])
    IN  IF Exists(files, file_path) /\ ~force_redownload /\ cached.raises = "none"
        THEN [files |-> files, requested |-> FALSE, raises |-> "none",
              result |-> cached.data]
        ELSE IF ~response.ok
             THEN [files |-> files, requested |-> TRUE, raises |-> "none",
                   result |-> None]
             ELSE IF response.body.id # Absent /\ response.body.plays # Absent
                  THEN [files |-> [files EXCEPT ![file_path] = JsonDump(response.body)],
                        requested |-> TRUE, raises |-> "none",
                        result |-> Some(response.body)]
                  ELSE [files |-> files, requested |-> TRUE, raises |-> "none",
                        result |-> None]

\* the cache directory as a run finds it: each game's file is missing, damaged,
\* or holds an object downloaded earlier
InitFiles ==
    [GameIds -> {NoFile, Garbage} \cup
                {JsonDump(JsonObject(Some(g), Some("plays-1"))) : g \in GameIds}]

InitStore ==
    /\ FeInit
    /\ shot = ShotIdle
    /\ \E files \in InitFiles :
          /\ \A g \in GameIds : files[g].kind = "json" => files[g].data.id = Some(g)
          /\ store = [stage |-> "start", files |-> files, n |-> 0]

\* the record of a call: its arguments, the answer the endpoint had for it,
\* the files before it, and its outcome
Called(call, game_id, force, response) ==
    [stage |-> "called", n |-> store.n + 1, files |-> call.files,
     before |-> store.files, game_id |-> game_id, force |-> force,
     response |-> response, requested |-> call.requested,
     raises |-> call.raises, result |-> call.result]

\* a call fetch_and_cache_pbp(game_id, force)
FetchCall ==
    /\ store.stage \in {"start", "called"}
    /\ store.n < MaxCalls
    /\ \E game_id \in GameIds, force \in BOOLEAN :
          \E response \in Responses(game_id) :
              store' = Called(FetchAndCachePbp(store.files, game_id, force, response),
                              game_id, force, response)
    /\ UNCHANGED <<fe_vars, shot>>

SpecFetch == InitStore /\ [][FetchCall]_vars

\* a call download_game_data(game_id, force_redownload)
DownloadCall ==
    /\ store.stage \in {"start", "called"}
    /\ store.n < MaxCalls
    /\ \E game_id \in GameIds, force \in BOOLEAN :
          \E response \in Responses(game_id) :
              store' = Called(DownloadGameData(store.files, game_id, force, response),
                              game_id, force, response)
    /\ UNCHANGED <<fe_vars, shot>>

SpecDownload == InitStore /\ [][DownloadCall]_vars

----------------------------------------------------------------------------
(* Vocabulary of the properties: the derived rows of the current game, set
   against the plays of its payload *)

Plays == Val(payload).plays

\* the derived rows written so far (none is written unless the payload has plays)
Derived == DOMAIN out

\* the target event E of derived row i: its tidy row and its own play record
Row(i) == group[i]
OwnPlay(i) == Plays[group[i].src]

PlayPeriod(j) ==
    IF Plays[j].periodDescriptor = None THEN None
    ELSE Some(Val(Plays[j].periodDescriptor).number)

PlaySeconds(j) == ToSeconds(Plays[j].timeInPeriod)

\* the plays of E's own period with a clock no later than E's, by index
OwnPeriodPrefix(i) ==
    SelectSeq([j \in DOMAIN Plays |-> j],
              LAMBDA j : /\ PlayPeriod(j) = Some(Row(i).period)
                         /\ PlaySeconds(j) # None
                         /\ Val(PlaySeconds(j)) <= Row(i).period_time_seconds)

\* the index of the play directly before E among the plays of E's period (0: none)
Predecessor(i) ==
    LET before == {j \in DOMAIN Plays :
                      j < Row(i).src /\ PlayPeriod(j) = PlayPeriod(Row(i).src)}
    IN  IF before = {} THEN 0 ELSE CHOOSE j \in before : \A k \in before : k <= j

----------------------------------------------------------------------------
(* C1..C10 *)

\* C1: the candidate prefix of every target row is exactly the plays of the
\* row's own period whose elapsed seconds are <= the row's, in timeline order
\* (empty when none qualifies).
C1_PrefixIsOwnPeriod ==
    \A i \in Derived : out[i].prefix = OwnPeriodPrefix(i)

\* C2: the 'previous' candidate of every target event E is the play directly
\* preceding E in timeline order within E's own period, and it is None exactly
\* when E has no such predecessor.
C2_PreviousIsPredecessor ==
    \A i \in Derived : out[i].last = Predecessor(i)

\* C3: the 'current' candidate of every target event E is E's own play record.
C3_CurrentIsOwnRecord ==
    \A i \in Derived : out[i].cur = Row(i).src

\* C4: rebound is True iff the previous candidate's type contains "shot"
\* case-insensitively, is not "blocked-shot", and the previous candidate's
\* owning team equals the current candidate's; otherwise it is the boolean
\* False (previous None and missing type included).
C4_ReboundIff ==
    \A i \in Derived :
        LET o == out[i]
        IN  /\ o.rebound \in BOOLEAN
            /\ o.rebound <=>
                 /\ o.last # 0
                 /\ Plays[o.last].typeDescKey # None
                 /\ ContainsShot(Lower(Val(Plays[o.last].typeDescKey)))
                 /\ Lower(Val(Plays[o.last].typeDescKey)) # "blocked-shot"
                 /\ Plays[o.last].details.eventOwnerTeamId
                        = Plays[o.cur].details.eventOwnerTeamId

\* a rebound is derived from a previous candidate whose type is written in
\* mixed case
C4_Witness ==
    \E i \in Derived : out[i].rebound /\ out[i].last_event_type = Some("Missed-Shot")

\* C5: every feature of a derived row depends only on the row's own event and
\* its game's timeline: the row gets the values it gets when it is processed
\* with nothing before it.
C5_NoCarryOver ==
    \A i \in Derived :
        LET alone == ProcessRow(Val(payload), Row(i), home_team, away_team,
                                Unbound, Unbound)
        IN  alone.raises = "none" /\ alone.values[1] = out[i]

\* C6: when the current candidate's situation code is missing or malformed, or
\* its owning team is neither the home nor the away team, the row gets
\* friendly_player_count = 5, opponent_player_count = 5, player_count_diff = 0.
C6_DecodeFailureDefaults ==
    \A i \in Derived :
        LET o == out[i]
            failure ==
                \/ o.cur = 0
                \/ DigitAt(Plays[o.cur].situationCode, 1) = None
                \/ DigitAt(Plays[o.cur].situationCode, 2) = None
                \/ Plays[o.cur].details.eventOwnerTeamId
                       \notin {Some(Val(payload).homeTeam.id), Some(Val(payload).awayTeam.id)}
        IN  failure => /\ o.friendly_player_count = 5
                       /\ o.opponent_player_count = 5
                       /\ o.player_count_diff = 0

\* C7: no exception escapes the construction of a row, whatever the plays of
\* a readable payload lack.
C7_NoExceptionEscapesRow ==
    (pc = "raised") => disk # "ok"

\* C8: a game whose payload is unreadable or lacks its play list or team ids is
\* skipped, and the games after it are still processed: it never ends the run.
C8_DamagedGameSkipped ==
    disk # "ok" => pc # "raised"

\* C9: time_since_last_event is E's elapsed seconds minus the previous
\* candidate's when there is a previous candidate, None when there is none,
\* and never negative.
C9_TimeSinceLastEvent ==
    \A i \in Derived :
        LET o == out[i]
        IN  IF o.last = 0 THEN o.time_since_last_event = None
            ELSE /\ o.time_since_last_event
                      = Some(Val(ToSeconds(OwnPlay(i).timeInPeriod)) - Val(PlaySeconds(o.last)))
                 /\ Val(o.time_since_last_event) >= 0

\* a row with a previous candidate 55 seconds earlier, and a row with none
C9_Witness ==
    /\ \E i \in Derived : out[i].last # 0 /\ out[i].time_since_last_event = Some(55)
    /\ \E i \in Derived : out[i].last = 0 /\ out[i].time_since_last_event = None

\* C10: last_event_distance is the Euclidean distance between E's coordinates
\* and the previous candidate's coordinates as the play-by-play records them,
\* whichever net E's team attacks, and None when the previous candidate's
\* coordinates are missing.
C10_DistanceIsEuclidean ==
    \A i \in Derived :
        LET o == out[i]
            e == OwnPlay(i).details
        IN  o.last # 0 =>
              LET l == Plays[o.last].details
              IN  IF l.xCoord = None \/ l.yCoord = None
                  THEN o.last_event_distance = None
                  ELSE o.last_event_distance
                         = Some(Hypot2(Val(e.xCoord) - Val(l.xCoord),
                                       Val(e.yCoord) - Val(l.yCoord)))

----------------------------------------------------------------------------
(* C11..C20 *)

\* the reduction of an angle difference to 0..180
Reflect(d) == IF d > 180 THEN 360 - d ELSE d

\* C11: when rebound is true, angle_change is the absolute difference between
\* E's shot angle and the angle of the previous candidate's coordinates, the
\* two angles taken under one convention (the one of E's shot angle: the angle
\* to the net E's team attacks, unsigned), reflected to 360 minus the value
\* when above 180.
C11_AngleChangeSameConvention ==
    \A i \in Derived :
        LET o == out[i]
        IN  (o.rebound /\ o.last_event_x # None /\ o.last_event_y # None) =>
              LET prev == CalculateDistanceAndAngle(o.last_event_x, o.last_event_y,
                                                    Row(i).attacking_net)[2]
              IN  o.angle_change
                    = Some(Reflect(Abs(Val(Row(i).shot_angle) - Val(prev))))

\* C12: for every derived row, angle_change, when non-null, lies in the closed
\* interval [0, 180].
C12_AngleChangeInRange ==
    \A i \in Derived :
        LET a == out[i].angle_change
        IN  (a # None /\ a # NaN) => (0 <= Val(a) /\ Val(a) <= 180)

\* a rebound row whose two angles differ by more than 180 before the reduction
C12_Witness ==
    \E i \in Derived :
        /\ out[i].rebound
        /\ Abs(Val(Row(i).shot_angle)
               - Val(ComputeAngle(out[i].last_event_x, out[i].last_event_y))) > 180
        /\ out[i].angle_change # None

\* C13: for every derived row whose rebound is False, angle_change equals 0.
C13_NoReboundNoAngleChange ==
    \A i \in Derived : ~out[i].rebound => out[i].angle_change = Some(0)

\* a row that is no rebound although its previous candidate has coordinates
\* at another angle than its own
C13_Witness ==
    \E i \in Derived :
        /\ ~out[i].rebound
        /\ out[i].last_event_type = Some("blocked-shot")
        /\ ComputeAngle(out[i].last_event_x, out[i].last_event_y) # None
        /\ ComputeAngle(out[i].last_event_x, out[i].last_event_y)
             # Row(i).shot_angle
        /\ out[i].angle_change = Some(0)

\* the four defaults of a row whose previous candidate is None
C14_Values ==
    \A i \in Derived :
        out[i].last = 0 =>
            /\ out[i].time_since_last_event = None
            /\ out[i].last_event_distance = None
            /\ out[i].event_speed = Some(0)
            /\ out[i].rebound = FALSE

\* C14: a row whose previous candidate is None (fewer than two events in the
\* prefix, the empty prefix included) has time_since_last_event = None,
\* distance_from_last_event = None, event_speed = 0 and rebound = False, and
\* computing it never raises.
C14_PreviousNoneDefaults ==
    /\ C14_Values
    /\ (pc = "raised" /\ disk = "ok" /\ ri < Len(group)) =>
          LET got == GetLastEvent(Val(payload), group[ri + 1])
          IN  ~(got.raises = "none" /\ Len(got.idx) < 2)

\* C15: event_speed is distance_from_last_event divided by
\* time_since_last_event when both are present and the time is not zero, and
\* is 0 when either is None or the time is 0.
C15_EventSpeed ==
    \A i \in Derived :
        LET d == out[i].last_event_distance
            t == out[i].time_since_last_event
        IN  IF d = None \/ t = None THEN out[i].event_speed = Some(0)
            ELSE IF Val(t) = 0 THEN out[i].event_speed = Some(0)
            ELSE out[i].event_speed = Quotient(Val(d), Val(t))

\* the rows of one game show the division by zero and a proper quotient
C15_Witness ==
    /\ \E i \in Derived :
          /\ out[i].last_event_distance \notin {None, Some(0)}
          /\ out[i].time_since_last_event = Some(0)
          /\ out[i].event_speed = Some(0)
    /\ \E i \in Derived :
          /\ out[i].time_since_last_event = Some(55)
          /\ out[i].last_event_distance \notin {None, Some(0)}
          /\ out[i].event_speed # Some(0)

\* a situation code of four characters whose characters 1 and 2 are digits
WellFormed(code) ==
    /\ code # None
    /\ Len(Val(code)) = 4
    /\ DigitAt(code, 1) # None
    /\ DigitAt(code, 2) # None

\* C16: when the situation code of the decoded event (the current candidate)
\* is well formed, friendly_player_count is its digit at index 2 if the
\* event's team is the home team and its digit at index 1 if it is the away
\* team, opponent_player_count is the other digit, and player_count_diff is
\* friendly minus opponent.
C16_ManpowerDecode ==
    \A i \in Derived :
        LET o == out[i]
        IN  o.cur # 0 =>
              LET c    == Plays[o.cur]
                  team == c.details.eventOwnerTeamId
                  a    == DigitAt(c.situationCode, 1)
                  h    == DigitAt(c.situationCode, 2)
              IN  /\ (WellFormed(c.situationCode) /\ team = Some(home_team)) =>
                        /\ o.friendly_player_count = Val(h)
                        /\ o.opponent_player_count = Val(a)
                  /\ (WellFormed(c.situationCode) /\ team = Some(away_team)) =>
                        /\ o.friendly_player_count = Val(a)
                        /\ o.opponent_player_count = Val(h)
                  /\ o.player_count_diff
                        = o.friendly_player_count - o.opponent_player_count

\* "1451" decoded for the home team (5, 4, 1) and for the away team (4, 5, -1)
C16_Witness ==
    /\ \E i \in Derived :
          /\ out[i].cur # 0
          /\ Plays[out[i].cur].situationCode = Some(Code1451)
          /\ Plays[out[i].cur].details.eventOwnerTeamId = Some(home_team)
          /\ out[i].friendly_player_count = 5
          /\ out[i].opponent_player_count = 4
          /\ out[i].player_count_diff = 1
    /\ \E i \in Derived :
          /\ out[i].cur # 0
          /\ Plays[out[i].cur].situationCode = Some(Code1451)
          /\ Plays[out[i].cur].details.eventOwnerTeamId = Some(away_team)
          /\ out[i].friendly_player_count = 4
          /\ out[i].opponent_player_count = 5
          /\ out[i].player_count_diff = -1

\* play j of the payload is a power play: the characters at index 1 and 2 of
\* its situation code differ
PowerPlay(j) ==
    LET code == Plays[j].situationCode
    IN  code # None /\ Len(Val(code)) >= 3 /\ Val(code)[2] # Val(code)[3]

\* the positions of the prefix of row i before its last that hold an event
\* that is not a power play
EarlierEven(i) ==
    {k \in 1..(Len(out[i].prefix) - 1) : ~PowerPlay(out[i].prefix[k])}

\* C17: when the current candidate is a power play, time_since_powerplay is
\* its elapsed seconds minus those of the most recent earlier event of the
\* prefix that is not a power play, and 0 when the prefix has no such event.
C17_TimeSincePowerplay ==
    \A i \in Derived :
        (out[i].cur # 0 /\ PowerPlay(out[i].cur)) =>
            IF EarlierEven(i) = {}
            THEN out[i].time_since_powerplay = 0
            ELSE LET k == CHOOSE k \in EarlierEven(i) : \A m \in EarlierEven(i) : m <= k
                 IN  out[i].time_since_powerplay
                       = Val(PlaySeconds(out[i].cur))
                         - Val(PlaySeconds(out[i].prefix[k]))

\* a power play whose most recent even-strength event is not the earliest
\* one of the prefix
C17_Witness ==
    \E i \in Derived :
        /\ out[i].cur # 0 /\ PowerPlay(out[i].cur)
        /\ Cardinality(EarlierEven(i)) = 2
        /\ PlaySeconds(out[i].prefix[1]) # PlaySeconds(out[i].prefix[2])
        /\ out[i].time_since_powerplay = 0

ShotsAndGoals ==
    SelectSeq([j \in DOMAIN Plays |-> j],
              LAMBDA j : Plays[j].typeDescKey \in {Some("shot-on-goal"), Some("goal")})

\* the rows of the game's group are its shot and goal plays, and so are the
\* derived rows of a group whose loop ran to its end
C19_WhenCompleted ==
    (payload # None /\ disk = "ok" /\ pc = "rows") =>
        /\ [i \in DOMAIN group |-> group[i].src] = ShotsAndGoals
        /\ ri = Len(group) => [i \in DOMAIN out |-> out[i].src] = ShotsAndGoals

\* C19: for every game the output holds exactly one row for each play of
\* type shot-on-goal or goal, in the order of the play list: neither
\* extraction nor feature derivation drops, duplicates or reorders one.
C19_OneRowPerShot ==
    /\ C19_WhenCompleted
    /\ (payload # None /\ disk = "ok" /\ pc = "raised") =>
          [i \in DOMAIN out |-> out[i].src] = ShotsAndGoals

C21_EmptyNetIffNoGoalie ==
    shot.stage = "derived" =>
        (shot.empty_net = 1 <=> shot.goalieInNetId \in {Absent, None})

\* C22: feature derivation leaves its inputs as they were: once the last row
\* of a game's group has been processed (nothing writes the group's rows after
\* that, so they are what the caller finds when feature_engineering_2 returns),
\* the loaded payload still holds the play list and the team ids it was read
\* with, and the rows of the caller's table are the rows that were passed in.
C22_InputsUnchanged ==
    (pc = "rows" /\ ri = Len(group) /\ disk = "ok") =>
        /\ payload = Some(Payload("ok", Plays))
        /\ group = TidyRows(Plays)

\* C23: for the event of the single-event pipeline, _calculate_distance_and_angle
\* has returned (None, None) when x or y is unknown, and otherwise the distance
\* from (x, y) to the goal point of the attacked side, (89, 0) or (-89, 0), and
\* the angle atan2(|y - goal_y|, goal_x - x) in degrees, wherever (x, y) lies,
\* behind the goal line included. The horizontal leg goal_x - x is the depth
\* of the position in front of the goal line; for the left goal point that is
\* the mirror image, x - goal_x.
C23_DistanceAndAngle ==
    shot.stage \in {"tidy", "derived"} =>
        LET x      == shot.play.details.xCoord
            y      == shot.play.details.yCoord
            right  == shot.row.attacking_net = "right"
            goal_x == IF right THEN 89 ELSE -89
            depth  == IF right THEN goal_x - Val(x) ELSE Val(x) - goal_x
        IN  IF x = None \/ y = None
            THEN shot.row.distance_from_net = None /\ shot.row.shot_angle = None
            ELSE /\ shot.row.distance_from_net = Some(Hypot2(Val(x) - goal_x, Val(y)))
                 /\ shot.row.shot_angle = Some(Arctan2Deg(Abs(Val(y)), depth))

C25_PreviousIsNotSelf ==
    \A i \in Derived : out[i].last # Row(i).src

\* C26: whenever a row of a game g is processed, the cached slot is the one
\* loaded for g (it is g's payload: when the payload has plays, the rows of the
\* group are the rows of its shot and goal plays, one each), and the home and
\* away team ids in use are the ones of that payload, whatever games came
\* before.
C26_SlotIsCurrentGame ==
    pc = "rows" =>
        /\ cached_game = gi
        /\ payload # None
        /\ Val(payload).kind = disk
        /\ home_team = Val(payload).homeTeam.id
        /\ away_team = Val(payload).awayTeam.id
        /\ disk = "ok" =>
              /\ Len(group) = Cardinality({j \in DOMAIN Plays : IsShotOrGoal(Plays[j])})
              /\ \A k \in DOMAIN group :
                    /\ group[k].src \in DOMAIN Plays
                    /\ IsShotOrGoal(Plays[group[k].src])
                    /\ LET e == ExtractEventData(Plays[group[k].src], group[k].src)
                       IN  /\ group[k].event_type = e.event_type
                           /\ group[k].period = e.period
                           /\ group[k].team_id = e.team_id
                           /\ group[k].period_time_seconds = TimeToSeconds(e.period_time)

\* a row of the second game of the batch has been processed
C26_Witness ==
    /\ pc = "rows"
    /\ gi = 2
    /\ ri >= 1
    /\ disk = "ok"

\* the clock values of the payload's plays do not decrease within a period
NonDecreasingClocks ==
    \A j, k \in DOMAIN Plays :
        (j < k /\ PlayPeriod(j) # None /\ PlayPeriod(j) = PlayPeriod(k)
               /\ PlaySeconds(j) # None /\ PlaySeconds(k) # None)
            => Val(PlaySeconds(j)) <= Val(PlaySeconds(k))

\* C27: in a timeline whose clock values do not decrease within a period,
\* time_since_powerplay of every derived row is at least 0 and at most the
\* elapsed seconds of the row's current candidate.
C27_TimeSincePowerplayBounds ==
    \A i \in Derived :
        (NonDecreasingClocks /\ out[i].cur # 0) =>
            /\ 0 <= out[i].time_since_powerplay
            /\ out[i].time_since_powerplay <= Val(PlaySeconds(out[i].cur))

\* a power play that began after the start of the period: the value is
\* strictly between the two bounds
C27_Witness ==
    \E i \in Derived :
        /\ NonDecreasingClocks
        /\ out[i].cur # 0
        /\ 0 < out[i].time_since_powerplay
        /\ out[i].time_since_powerplay < Val(PlaySeconds(out[i].cur))

\* C28: for the game whose rows are processed and every period,
\* _get_attacking_net gives the game's two teams opposite nets, and gives each
\* team the other net in the period that follows.
C28_OppositeAndAlternatingNets ==
    (pc = "rows" /\ disk = "ok") =>
        LET game_home == DetermineHomeTeam(ProcessSingleGame(Plays))
            home      == Some(Val(payload).homeTeam.id)
            away      == Some(Val(payload).awayTeam.id)
        IN  \A period \in 1..3 :
                /\ GetAttackingNet(home, period, game_home)
                      # GetAttackingNet(away, period, game_home)
                /\ \A team \in {home, away} :
                      GetAttackingNet(team, period, game_home)
                        # GetAttackingNet(team, period + 1, game_home)

\* C29: once _calculate_shot_features has run, the row of an event with known
\* coordinates is in the right-attacking frame: the distance from its stored
\* (x_coord, y_coord) to (89, 0) is its distance_from_net, and
\* _transform_coordinates applied to it once more gives back the coordinates
\* of the raw record.
C29_RightAttackingFrame ==
    (shot.stage \in {"tidy", "derived"}
        /\ shot.row.x_coord # NaN /\ shot.row.y_coord # NaN) =>
        /\ shot.row.distance_from_net
              = Some(Hypot2(Val(shot.row.x_coord) - NetX, Val(shot.row.y_coord)))
        /\ TransformCoordinates(shot.row).x_coord = shot.play.details.xCoord
        /\ TransformCoordinates(shot.row).y_coord = shot.play.details.yCoord

\* an event attacking the left net, off the centre line, whose stored
\* coordinates are the negated raw ones
C29_Witness ==
    /\ shot.stage = "tidy"
    /\ shot.row.attacking_net = "left"
    /\ shot.row.x_coord \notin {NaN, Some(0)}
    /\ shot.row.y_coord \notin {NaN, Some(0)}
    /\ shot.row.x_coord # shot.play.details.xCoord

\* the file of a game holds an object with both an "id" and a "plays" key
Complete(file) ==
    file.kind = "json" /\ file.data.id # Absent /\ file.data.plays # Absent

\* C30: in any sequence of download_game_data calls, a file the call has
\* written holds both "id" and "plays"; a call whose request failed, or was
\* answered by an object lacking either key, has written nothing and returned
\* None; and a call that found a cached file that cannot be parsed has not
\* returned it but issued a request.
C30_DownloadGameData ==
    store.stage = "called" =>
        LET path == store.game_id
            body == store.response.body
        IN  /\ \A g \in GameIds :
                  store.files[g] # store.before[g] => Complete(store.files[g])
            /\ (store.requested
                   /\ (~store.response.ok \/ body.id = Absent \/ body.plays = Absent)) =>
                   /\ store.files = store.before
                   /\ store.result = None
            /\ store.before[path].kind = "garbage" =>
                   /\ store.requested
                   /\ store.result \in {None, Some(body)}

\* the second call of a sequence found the damaged file of its game, was not
\* forced, downloaded a complete object, wrote it and returned it
C30_Witness ==
    /\ store.stage = "called"
    /\ store.n = 2
    /\ ~store.force
    /\ store.before[store.game_id].kind = "garbage"
    /\ Complete(store.files[store.game_id])
    /\ store.result = Some(store.response.body)

====
